---- MODULE Spec2Model ----
(***************************************************************************)
(* A model of fastapi-crudo: the CrudoAuth / CrudoAdmin construction step, *)
(* the session-based authentication routes, the generic CRUD router and    *)
(* the plugin action router.                                               *)
(*                                                                         *)
(* Python values are encoded so that TLC never compares values of          *)
(* different kinds:                                                        *)
(*   - Optional[T]  : the empty set for None, {x} for a value x;           *)
(*   - a dict       : a function (record) over its keys, <<>> when empty;  *)
(*   - a column value: a record [k, i, s] tagged "int", "str" or "null".   *)
(* Strings are TLA+ strings; Len, SubSeq and \o act on their characters.   *)
(***************************************************************************)
EXTENDS Integers, Sequences, FiniteSets, TLC

VARIABLES
    cfgIn,      \* the arguments given to CrudoAuth(...) and CrudoAdmin(...)
    built,      \* how far construction got, or the exception it raised
    auth,       \* the CrudoAuth object: {} before it exists, else {object}
    app,        \* what has been added to the FastAPI application
    models,     \* CrudoAdmin.models: the registered table names
    session,    \* request.session["crudo_user"]: {} or {user dict}
    db,         \* committed database contents: table name -> set of rows
    req,        \* the request handled last
    resp,       \* the response to it, with what the handler did on the way
    loggedOut   \* TRUE from a logout until the next successful login

vars == <<cfgIn, built, auth, app, models, session, db, req, resp, loggedOut>>

(***************************************************************************)
(* Bounds of the model.                                                    *)
(***************************************************************************)
\* longest record id enumerated for the primary-key parsing specification
MaxIdLen == 5
\* highest id the database hands out to a new row in the request specification
MaxAutoId == 2
\* most columns of a mapped class in the schema specification
MaxColumns == 2

(***************************************************************************)
(* Python string operations used by the code.                              *)
(***************************************************************************)
CharAt(s, i) == SubSeq(s, i, i)

LowerChars == "abcdefghijklmnopqrstuvwxyz"
UpperChars == "ABCDEFGHIJKLMNOPQRSTUVWXYZ"

\* lower-case letter -> upper-case letter
UpperOf ==
    [c \in {CharAt(LowerChars, i) : i \in 1..26} |->
        CharAt(UpperChars, CHOOSE i \in 1..26 : CharAt(LowerChars, i) = c)]

UpperChar(c) == IF c \in DOMAIN UpperOf THEN UpperOf[c] ELSE c

\* str.upper()
RECURSIVE Upper(_)
Upper(s) == IF s = "" THEN "" ELSE UpperChar(Head(s)) \o Upper(Tail(s))

\* `sub in s`
Contains(sub, s) ==
    \E i \in 1..(Len(s) - Len(sub) + 1) : SubSeq(s, i, i + Len(sub) - 1) = sub

\* str.split(sep): left to right, non-overlapping
RECURSIVE Split(_, _)
Split(s, sep) ==
    IF ~Contains(sep, s) THEN <<s>>
    ELSE LET i == CHOOSE j \in 1..(Len(s) - Len(sep) + 1) :
                    /\ SubSeq(s, j, j + Len(sep) - 1) = sep
                    /\ \A k \in 1..(j - 1) : SubSeq(s, k, k + Len(sep) - 1) # sep
         IN  <<SubSeq(s, 1, i - 1)>> \o Split(SubSeq(s, i + Len(sep), Len(s)), sep)

Whitespace == {" ", "\t", "\n", "\r"}

RECURSIVE LStrip(_)
LStrip(s) == IF s # "" /\ Head(s) \in Whitespace THEN LStrip(Tail(s)) ELSE s

RECURSIVE RStrip(_)
RStrip(s) ==
    IF s # "" /\ CharAt(s, Len(s)) \in Whitespace
    THEN RStrip(SubSeq(s, 1, Len(s) - 1)) ELSE s

\* str.strip()
Strip(s) == RStrip(LStrip(s))

Digits == "0123456789"
IsDigit(c) == \E i \in 1..10 : CharAt(Digits, i) = c
DigitVal(c) == (CHOOSE i \in 1..10 : CharAt(Digits, i) = c) - 1

\* the text of an integer literal without sign: digits, single underscores between
IsDigitRun(t) ==
    /\ t # ""
    /\ IsDigit(Head(t))
    /\ IsDigit(CharAt(t, Len(t)))
    /\ \A i \in 1..Len(t) : IsDigit(CharAt(t, i)) \/ CharAt(t, i) = "_"
    /\ ~Contains("__", t)

RECURSIVE DigitRunVal(_, _)
DigitRunVal(t, acc) ==
    IF t = "" THEN acc
    ELSE IF Head(t) = "_" THEN DigitRunVal(Tail(t), acc)
    ELSE DigitRunVal(Tail(t), 10 * acc + DigitVal(Head(t)))

Unsigned(t) == IF t # "" /\ Head(t) \in {"+", "-"} THEN Tail(t) ELSE t

\* whether int(s) returns (TRUE) or raises ValueError (FALSE)
IntParses(s) == IsDigitRun(Unsigned(Strip(s)))

\* int(s), where it returns
IntOf(s) ==
    LET t == Strip(s)
        n == DigitRunVal(Unsigned(t), 0)
    IN  IF t # "" /\ Head(t) = "-" THEN 0 - n ELSE n

\* every string over `alphabet` of length exactly n, and of length at most n
RECURSIVE StringsOfLen(_, _)
StringsOfLen(alphabet, n) ==
    IF n = 0 THEN {""}
    ELSE {s \o c : s \in StringsOfLen(alphabet, n - 1), c \in alphabet}

StringsUpTo(alphabet, n) == UNION {StringsOfLen(alphabet, k) : k \in 0..n}

(***************************************************************************)
(* Column values and Optional values.                                      *)
(***************************************************************************)
IntV(n) == [k |-> "int", i |-> n, s |-> ""]
StrV(x) == [k |-> "str", i |-> 0, s |-> x]
NullV == [k |-> "null", i |-> 0, s |-> ""]

None == {}
Some(x) == {x}
The(o) == CHOOSE x \in o : TRUE

EmptyDict == <<>>
\* dict.get(key, default)
DictGet(d, key, default) == IF key \in DOMAIN d THEN d[key] ELSE default

(***************************************************************************)
(* The reflected schema: the mapped classes found on the declarative base. *)
(* A column carries what the code reads of a SQLAlchemy Column: its name,  *)
(* the class name of its type, str(type), primary_key, nullable, whether   *)
(* default / server_default are set, and autoincrement ("auto", "true",    *)
(* "false").                                                               *)
(***************************************************************************)
Col(name, type, rendered, pk, nullable, default, server_default, autoincrement) ==
    [name |-> name, type |-> type, rendered |-> rendered, primary_key |-> pk,
     nullable |-> nullable, default |-> default,
     server_default |-> server_default, autoincrement |-> autoincrement]

\* found by _discover_models: table name -> columns, and whether schema
\* generation for the class raises
Tables ==
    [notes |->
        [cols |-> << Col("id", "INTEGER", "INTEGER", TRUE, FALSE, FALSE, FALSE, "auto"),
                     Col("body", "VARCHAR", "VARCHAR(50)", FALSE, TRUE, FALSE, FALSE, "auto") >>,
         raises |-> FALSE],
     tags |->
        [cols |-> << Col("note_id", "Integer", "INTEGER", TRUE, FALSE, FALSE, FALSE, "auto"),
                     Col("tag", "String", "VARCHAR", TRUE, FALSE, FALSE, FALSE, "auto") >>,
         raises |-> FALSE],
     shifts |->
        [cols |-> << Col("span", "Interval", "INTERVAL", TRUE, FALSE, FALSE, FALSE, "auto"),
                     Col("label", "Text", "TEXT", FALSE, TRUE, FALSE, FALSE, "auto") >>,
         raises |-> FALSE],
     alembic_version |->
        [cols |-> << Col("version_num", "VARCHAR", "VARCHAR(32)", TRUE, FALSE, FALSE, FALSE, "auto") >>,
         raises |-> FALSE],
     audit_log |->
        [cols |-> << Col("msg", "TEXT", "TEXT", FALSE, TRUE, FALSE, FALSE, "auto") >>,
         raises |-> FALSE],
     legacy |->
        [cols |-> << Col("id", "INTEGER", "INTEGER", TRUE, FALSE, FALSE, FALSE, "auto") >>,
         raises |-> TRUE]]

TableNames == DOMAIN Tables

ColumnsOf(t) == Tables[t].cols
ColumnNames(t) == {ColumnsOf(t)[i].name : i \in 1..Len(ColumnsOf(t))}

\* model.__table__.columns: table name -> column name -> column
TableColumns ==
    [t \in TableNames |->
        [name \in ColumnNames(t) |->
            ColumnsOf(t)[CHOOSE i \in 1..Len(ColumnsOf(t)) : ColumnsOf(t)[i].name = name]]]

ColumnNamed(t, name) == TableColumns[t][name]

(***************************************************************************)
(* schema_factory.py                                                       *)
(***************************************************************************)
\* _SA_TYPE_MAP: <<key, json type, python type>>
SA_TYPE_MAP ==
    << <<"INTEGER", "integer", "int">>, <<"SMALLINT", "integer", "int">>,
       <<"SMALLINTEGER", "integer", "int">>, <<"BIGINT", "integer", "int">>,
       <<"BIGINTEGER", "integer", "int">>, <<"SERIAL", "integer", "int">>,
       <<"BIGSERIAL", "integer", "int">>,
       <<"VARCHAR", "string", "str">>, <<"NVARCHAR", "string", "str">>,
       <<"CHAR", "string", "str">>, <<"NCHAR", "string", "str">>,
       <<"STRING", "string", "str">>, <<"TEXT", "string", "str">>,
       <<"UNICODE", "string", "str">>, <<"UNICODETEXT", "string", "str">>,
       <<"CLOB", "string", "str">>,
       <<"BOOLEAN", "boolean", "bool">>,
       <<"FLOAT", "number", "float">>, <<"REAL", "number", "float">>,
       <<"DOUBLE", "number", "float">>, <<"DOUBLE_PRECISION", "number", "float">>,
       <<"NUMERIC", "number", "float">>, <<"DECIMAL", "number", "float">>,
       <<"DATETIME", "datetime", "datetime">>, <<"DATE", "date", "date">>,
       <<"TIME", "time", "time">>, <<"TIMESTAMP", "datetime", "datetime">>,
       <<"ENUM", "enum", "str">>,
       <<"JSON", "json", "Any">>, <<"JSONB", "json", "Any">>,
       <<"ARRAY", "array", "list">>,
       <<"UUID", "string", "str">>,
       <<"BLOB", "string", "str">>, <<"BYTEA", "string", "str">>,
       <<"LARGEBINARY", "string", "str">>,
       <<"INTERVAL", "string", "str">>, <<"INET", "string", "str">>,
       <<"CIDR", "string", "str">>, <<"MACADDR", "string", "str">>,
       <<"GEOMETRY", "geometry", "Any">>, <<"GEOGRAPHY", "geometry", "Any">>,
       <<"RASTER", "geometry", "Any">> >>

InTypeMap(key) == \E i \in 1..Len(SA_TYPE_MAP) : SA_TYPE_MAP[i][1] = key
TypeMapEntry(key) ==
    LET e == SA_TYPE_MAP[CHOOSE i \in 1..Len(SA_TYPE_MAP) : SA_TYPE_MAP[i][1] = key]
    IN  <<e[2], e[3]>>

AnyIn(subs, s) == \E t \in subs : Contains(t, s)

\* the fallback rules with DATE and TIME tried before TIMESTAMP / DATETIME
GetSaTypeInfoDateFirst(column) ==
    LET type_name == Upper(column.type)
        type_str == Upper(column.rendered)
    IN  IF InTypeMap(type_name) THEN TypeMapEntry(type_name)
        ELSE IF Contains("INT", type_str) THEN <<"integer", "int">>
        ELSE IF AnyIn({"CHAR", "TEXT", "CLOB"}, type_str) THEN <<"string", "str">>
        ELSE IF Contains("BOOL", type_str) THEN <<"boolean", "bool">>
        ELSE IF AnyIn({"FLOAT", "DOUBLE", "NUMERIC", "DECIMAL"}, type_str)
             THEN <<"number", "float">>
        ELSE IF Contains("DATE", type_str) THEN <<"date", "date">>
        ELSE IF Contains("TIME", type_str) THEN <<"time", "time">>
        ELSE IF Contains("TIMESTAMP", type_str) \/ Contains("DATETIME", type_str)
             THEN <<"datetime", "datetime">>
        ELSE IF Contains("JSON", type_str) THEN <<"json", "Any">>
        ELSE IF Contains("UUID", type_str) THEN <<"string", "str">>
        ELSE <<"string", "str">>

\* _get_sa_type_info(column): <<json type, python type>>
GetSaTypeInfo(column) ==
    LET type_name == Upper(column.type)
        type_str == Upper(column.rendered)
    IN  IF InTypeMap(type_name) THEN TypeMapEntry(type_name)
        ELSE IF Contains("INT", type_str) THEN <<"integer", "int">>
        ELSE IF AnyIn({"CHAR", "TEXT", "CLOB"}, type_str) THEN <<"string", "str">>
        ELSE IF Contains("BOOL", type_str) THEN <<"boolean", "bool">>
        ELSE IF AnyIn({"FLOAT", "DOUBLE", "NUMERIC", "DECIMAL"}, type_str)
             THEN <<"number", "float">>
        ELSE IF Contains("TIMESTAMP", type_str) \/ Contains("DATETIME", type_str)
             THEN <<"datetime", "datetime">>
        ELSE IF Contains("DATE", type_str) THEN <<"date", "date">>
        ELSE IF Contains("TIME", type_str) THEN <<"time", "time">>
        ELSE IF Contains("JSON", type_str) THEN <<"json", "Any">>
        ELSE IF Contains("UUID", type_str) THEN <<"string", "str">>
        ELSE <<"string", "str">>

\* _is_auto_pk(column)
IsAutoPk(column) ==
    IF ~column.primary_key THEN FALSE
    ELSE IF column.server_default THEN TRUE
    ELSE IF column.default THEN TRUE
    ELSE IF column.autoincrement = "true" THEN TRUE
    ELSE IF column.autoincrement = "auto" /\ Contains("INT", Upper(column.type)) THEN TRUE
    ELSE FALSE

\* mapper.columns of a model, as the set of column names and by name
NamesOf(cols) == {cols[i].name : i \in 1..Len(cols)}
Named(cols, name) == cols[CHOOSE i \in 1..Len(cols) : cols[i].name = name]

\* get_pk_columns(model): the primary-key column names, in column order
GetPkColumns(cols) ==
    [j \in 1..Cardinality({i \in 1..Len(cols) : cols[i].primary_key}) |->
        cols[CHOOSE i \in 1..Len(cols) :
                /\ cols[i].primary_key
                /\ Cardinality({h \in 1..i : cols[h].primary_key}) = j].name]

\* create_schemas_for_model(model): the fields of each generated contract,
\* column name -> [py: python type, required: BOOLEAN]
ReadFields(cols) ==
    [c \in NamesOf(cols) |->
        [py |-> GetSaTypeInfo(Named(cols, c))[2], required |-> FALSE]]

CreateFields(cols) ==
    [c \in {n \in NamesOf(cols) : ~IsAutoPk(Named(cols, n))} |->
        LET col == Named(cols, c)
        IN  [py |-> GetSaTypeInfo(col)[2],
             required |-> ~(col.server_default \/ col.default \/ col.nullable)]]

UpdateFields(cols) ==
    [c \in NamesOf(cols) |->
        [py |-> GetSaTypeInfo(Named(cols, c))[2], required |-> FALSE]]

CreateSchemasForModel(cols) ==
    [read |-> ReadFields(cols), create |-> CreateFields(cols),
     update |-> UpdateFields(cols), pk_columns |-> GetPkColumns(cols)]

\* get_column_metadata(model): what the code computes of each column's entry
GetColumnMetadata(cols) ==
    [i \in 1..Len(cols) |->
        [name |-> cols[i].name,
         type |-> GetSaTypeInfo(cols[i])[1],
         sa_type |-> cols[i].type,
         primary_key |-> cols[i].primary_key,
         nullable |-> cols[i].nullable,
         has_default |-> cols[i].default \/ cols[i].server_default,
         is_auto_pk |-> IsAutoPk(cols[i])]]

(***************************************************************************)
(* router.py: primary-key parsing                                          *)
(***************************************************************************)
\* _convert_pk_value(value_str, col_obj): the converted value, or the 400
ConvertPkValue(value_str, col_obj) ==
    LET type_name == Upper(col_obj.type)
    IN  IF Contains("INT", type_name)
        THEN IF IntParses(value_str)
             THEN [ok |-> TRUE, value |-> IntV(IntOf(value_str)), detail |-> ""]
             ELSE [ok |-> FALSE, value |-> NullV, detail |-> "Invalid integer PK"]
        ELSE [ok |-> TRUE, value |-> StrV(value_str), detail |-> ""]

\* the record id split whatever the number of key columns
PkPartsAlwaysSplit(record_id, pk_columns) == Split(record_id, "--")

PkParts(record_id, pk_columns) ==
    IF Len(pk_columns) > 1 THEN Split(record_id, "--") ELSE <<record_id>>

\* _build_pk_filters(record_id, model, pk_columns): the filters
\* <<column name, value>>, or the HTTPException raised
BuildPkFilters(record_id, t, pk_columns) ==
    LET parts == PkParts(record_id, pk_columns)
        conv == [j \in 1..Len(pk_columns) |->
                    ConvertPkValue(parts[j], ColumnNamed(t, pk_columns[j]))]
    IN  IF Len(parts) # Len(pk_columns)
        THEN [ok |-> FALSE, status |-> 400, detail |-> "Expected n PK value(s)",
              filters |-> <<>>]
        ELSE IF \E j \in 1..Len(pk_columns) : ~conv[j].ok
        THEN [ok |-> FALSE, status |-> 400, detail |-> "Invalid integer PK",
              filters |-> <<>>]
        ELSE [ok |-> TRUE, status |-> 200, detail |-> "",
              filters |-> [j \in 1..Len(pk_columns) |-> <<pk_columns[j], conv[j].value>>]]

\* db.query(model).filter(*filters): the rows every filter accepts
Matching(rows, filters) ==
    {r \in rows : \A j \in 1..Len(filters) : r[filters[j][1]] = filters[j][2]}

(***************************************************************************)
(* auth.py: CrudoAuth                                                      *)
(***************************************************************************)
\* bool(d) of an Optional[dict]
Truthy(optDict) == optDict # None /\ DOMAIN The(optDict) # {}

Roles == {"admin", "viewer"}

\* the loop "Validate basic users" finds nothing to raise for
BasicUsersOk(users) ==
    \A username \in DOMAIN users :
        LET info == users[username]
        IN  /\ DictGet(info, "password", "") # ""
            /\ DictGet(info, "role", "viewer") \in Roles

\* the block "Validate google oauth" finds nothing to raise for
GoogleOAuthOk(g) ==
    /\ DictGet(g, "client_id", "") # ""
    /\ DictGet(g, "client_secret", "") # ""
    /\ DOMAIN DictGet(g, "allowed_users", EmptyDict) # {}
    /\ \A email \in DOMAIN g["allowed_users"] : g["allowed_users"][email] \in Roles

\* __post_init__ without the validation of the basic users
PostInitSkipsBasicUsers(secret_key, basic_users, google_oauth) ==
    IF secret_key = "" THEN "ValueError"
    ELSE IF ~Truthy(basic_users) /\ ~Truthy(google_oauth) THEN "ValueError"
    ELSE IF Truthy(google_oauth) /\ ~GoogleOAuthOk(The(google_oauth)) THEN "ValueError"
    ELSE "ok"

\* CrudoAuth.__post_init__: "ok", or the exception raised
PostInit(secret_key, basic_users, google_oauth) ==
    IF secret_key = "" THEN "ValueError"
    ELSE IF ~Truthy(basic_users) /\ ~Truthy(google_oauth) THEN "ValueError"
    ELSE IF Truthy(basic_users) /\ ~BasicUsersOk(The(basic_users)) THEN "ValueError"
    ELSE IF Truthy(google_oauth) /\ ~GoogleOAuthOk(The(google_oauth)) THEN "ValueError"
    ELSE "ok"

\* the CrudoAuth object built from the arguments
AuthObject(in) ==
    [secret_key |-> in.secret_key, basic_users |-> in.basic_users,
     google_oauth |-> in.google_oauth]

\* CrudoAuth.has_basic, CrudoAuth.has_google
HasBasic(a) == Truthy(a.basic_users)
HasGoogle(a) == Truthy(a.google_oauth)

(***************************************************************************)
(* admin.py: CrudoAdmin.__init__, _discover_models, _setup_routes          *)
(***************************************************************************)
ToSet(list) == {list[i] : i \in 1..Len(list)}

\* self.include_models = set(include_models) if include_models else None
IncludeSet(include_models) ==
    IF include_models # None /\ Len(The(include_models)) > 0
    THEN Some(ToSet(The(include_models))) ELSE None

\* self.exclude_models = set(exclude_models) if exclude_models else set()
ExcludeSet(exclude_models) ==
    IF exclude_models # None /\ Len(The(exclude_models)) > 0
    THEN ToSet(The(exclude_models)) ELSE {}

\* the loop of _discover_models: whether `tablename` ends up in self.models
Registers(tablename, include, exclude) ==
    IF include # None /\ The(include) # {} /\ tablename \notin The(include) THEN FALSE
    ELSE IF tablename \in exclude THEN FALSE
    ELSE IF Len(GetPkColumns(ColumnsOf(tablename))) = 0 THEN FALSE
    ELSE IF Tables[tablename].raises THEN FALSE
    ELSE TRUE

\* _discover_models: self.models, table name -> the generated schemas
DiscoverModels(include_models, exclude_models) ==
    [t \in {n \in TableNames :
                Registers(n, IncludeSet(include_models), ExcludeSet(exclude_models))}
        |-> CreateSchemasForModel(ColumnsOf(t))]

\* the plugins argument: table name -> CrudoAction list (name, role)
Plugins ==
    [notes |-> << [name |-> "export", role |-> "viewer"],
                  [name |-> "purge", role |-> "admin"],
                  [name |-> "audit", role |-> "auditor"] >>]

ActionsOf(t) == DictGet(Plugins, t, <<>>)

EmptyApp == [parts |-> {}, crud |-> {}, actions |-> {}]

\* _setup_routes, after the session middleware: what the application holds
SetupRoutes(registered) ==
    [parts |-> {"SessionMiddleware", "auth_router", "meta_models",
                "login_page", "ui_page", "static"},
     crud |-> DOMAIN registered,
     actions |-> {t \in DOMAIN registered : Len(ActionsOf(t)) > 0}]

\* CrudoAuth(secret_key=..., basic_users=..., google_oauth=...)
NewCrudoAuth ==
    /\ built = "new"
    /\ cfgIn.auth_arg = "CrudoAuth"
    /\ LET r == PostInit(cfgIn.secret_key, cfgIn.basic_users, cfgIn.google_oauth)
       IN  IF r = "ok"
           THEN /\ built' = "auth_ok"
                /\ auth' = Some(AuthObject(cfgIn))
           ELSE /\ built' = r
                /\ auth' = None
    /\ UNCHANGED <<cfgIn, app, models, session, db, req, resp, loggedOut>>

\* CrudoAdmin(app, base, session_factory, auth=..., include_models=...,
\* exclude_models=..., plugins=...)
NewCrudoAdmin ==
    /\ \/ built = "auth_ok" /\ cfgIn.auth_arg = "CrudoAuth"
       \/ built = "new" /\ cfgIn.auth_arg # "CrudoAuth"
    /\ IF cfgIn.auth_arg # "CrudoAuth"
       THEN /\ built' = "TypeError"
            /\ UNCHANGED <<app, models>>
       ELSE LET registered == DiscoverModels(cfgIn.include_models, cfgIn.exclude_models)
            IN  /\ built' = "admin_ok"
                /\ models' = registered
                /\ app' = SetupRoutes(registered)
    /\ UNCHANGED <<cfgIn, auth, session, db, req, resp, loggedOut>>

(***************************************************************************)
(* Requests and responses.  resp records, beside the status and detail,    *)
(* what the handler did: whether it queried the database, how commit and   *)
(* refresh ended, whether it rolled back, whether an action function ran.  *)
(***************************************************************************)
NoJson == [x \in {} |-> NullV]

Request(op, table, id, json, name, secret, pks, role) ==
    [op |-> op, table |-> table, id |-> id, json |-> json, name |-> name,
     secret |-> secret, pks |-> pks, role |-> role]

\* the role of the session user, "" when the session holds no user
RoleOf(sess) == IF sess = None THEN "" ELSE The(sess).role

NoRequest == Request("none", "", "", NoJson, "", "", <<>>, "")

Response(status, detail) ==
    [status |-> status, detail |-> detail, queried |-> FALSE, commit |-> "none",
     refresh |-> "none", rolled_back |-> FALSE, ran |-> FALSE, rows |-> {},
     user |-> None, total |-> 0]

NoResponse == Response(0, "")

(***************************************************************************)
(* auth.py: the session dependencies                                       *)
(***************************************************************************)
\* _get_session_user(request)
GetSessionUser(sess) == sess

\* require_auth(request): the user, or the 401 raised
RequireAuth(sess) ==
    LET user == GetSessionUser(sess)
    IN  IF user = None
        THEN [ok |-> FALSE, status |-> 401, detail |-> "Not authenticated"]
        ELSE [ok |-> TRUE, status |-> 200, detail |-> ""]

\* require_admin_dep without its role check
RequireAdminDepAnyUser(sess) == RequireAuth(sess)

\* require_admin_dep(request): the admin user, or the 401 / 403 raised
RequireAdminDep(sess) ==
    LET user == RequireAuth(sess)
    IN  IF ~user.ok THEN user
        ELSE IF The(sess).role # "admin"
        THEN [ok |-> FALSE, status |-> 403, detail |-> "Admin access required"]
        ELSE [ok |-> TRUE, status |-> 200, detail |-> ""]

(***************************************************************************)
(* The database behind the SQLAlchemy session: rows are functions from     *)
(* column name to value; a commit fails when a constraint is violated or   *)
(* when the database itself fails.                                         *)
(***************************************************************************)
\* the primary key of each table, as the database holds it
PrimaryKey == [t \in TableNames |-> GetPkColumns(ColumnsOf(t))]

PkOf(t, row) == [j \in 1..Len(PrimaryKey[t]) |-> row[PrimaryKey[t][j]]]

MaxOf(S) == CHOOSE m \in S : \A n \in S : n <= m

\* the id the database assigns to a new row of a single integer key
NextId(rows, c) == IF rows = {} THEN 1 ELSE MaxOf({r[c].i : r \in rows}) + 1

\* whether the database fills the column of a new row by itself
DbGenerates(t, c) ==
    LET col == ColumnNamed(t, c)
    IN  /\ col.primary_key
        /\ Len(PrimaryKey[t]) = 1
        /\ col.autoincrement # "false"
        /\ GetSaTypeInfo(col)[1] = "integer"

\* model(**values), as the INSERT stores it
NewRow(t, values, rows) ==
    [c \in ColumnNames(t) |->
        IF c \in DOMAIN values THEN values[c]
        ELSE IF DbGenerates(t, c) THEN IntV(NextId(rows, c))
        ELSE NullV]

\* NOT NULL and PRIMARY KEY constraints of `row` beside the rows `others`
ConstraintsHold(t, row, others) ==
    /\ \A c \in ColumnNames(t) : ~ColumnNamed(t, c).nullable => row[c].k # "null"
    /\ \A o \in others : PkOf(t, o) # PkOf(t, row)

\* a failed commit whose pending changes are kept
AfterCommitKeepsPending(committed, pending, failed) == pending

\* try: db.commit() ... except: db.rollback(): the table contents afterwards
AfterCommit(committed, pending, failed) == IF failed THEN committed ELSE pending

(***************************************************************************)
(* Request bodies against a generated contract (pydantic validation).      *)
(***************************************************************************)
KindOf(py) == IF py = "int" THEN "int" ELSE "str"

ValidBody(fields, json) ==
    /\ \A c \in DOMAIN fields :
          fields[c].required => c \in DOMAIN json /\ json[c].k # "null"
    /\ \A c \in DOMAIN json \cap DOMAIN fields :
          json[c].k # "null" => json[c].k = KindOf(fields[c].py)

\* data.model_dump(exclude_unset=True)
ModelDump(fields, json) == [c \in DOMAIN json \cap DOMAIN fields |-> json[c]]

(***************************************************************************)
(* router.py: the handlers, as the pair of response and database after     *)
(***************************************************************************)
Outcome(r, d) == [resp |-> r, db |-> d]

\* list_records
ListRecordsOutcome(sess, schemas, t, page, per_page, dbv) ==
    IF ~RequireAuth(sess).ok
    THEN Outcome(Response(401, RequireAuth(sess).detail), dbv)
    ELSE LET total == Cardinality(dbv[t])
             offset == (page - 1) * per_page
             left == IF total > offset THEN total - offset ELSE 0
             shown == IF left > per_page THEN per_page ELSE left
             pages == IF (total + per_page - 1) \div per_page > 1
                      THEN (total + per_page - 1) \div per_page ELSE 1
         IN  Outcome([Response(200, "") EXCEPT !.queried = TRUE, !.total = total,
                         !.rows = IF shown = total THEN dbv[t] ELSE {}], dbv)

\* get_record
GetRecordOutcome(sess, schemas, t, record_id, dbv) ==
    IF ~RequireAuth(sess).ok
    THEN Outcome(Response(401, RequireAuth(sess).detail), dbv)
    ELSE LET f == BuildPkFilters(record_id, t, schemas.pk_columns)
             found == Matching(dbv[t], f.filters)
         IN  IF ~f.ok THEN Outcome(Response(f.status, f.detail), dbv)
             ELSE IF found = {}
             THEN Outcome([Response(404, "Record not found") EXCEPT !.queried = TRUE], dbv)
             ELSE Outcome([Response(200, "") EXCEPT !.queried = TRUE,
                              !.rows = {CHOOSE r \in found : TRUE}], dbv)

\* what a write handler answers once it has changed the session's pending
\* state to `pending`: commit, refresh, rollback on either failing
CommitOutcome(t, okStatus, row, constraints, fault, pending, dbv) ==
    LET failed == fault = "commit" \/ ~constraints
        after == [dbv EXCEPT ![t] = AfterCommit(dbv[t], pending, failed)]
    IN  IF failed
        THEN Outcome([Response(400, "commit failed") EXCEPT !.queried = TRUE,
                         !.commit = "failed", !.rolled_back = TRUE], after)
        ELSE IF fault = "refresh"
        THEN Outcome([Response(400, "refresh failed") EXCEPT !.queried = TRUE,
                         !.commit = "ok", !.refresh = "failed",
                         !.rolled_back = TRUE], after)
        ELSE Outcome([Response(okStatus, "") EXCEPT !.queried = TRUE,
                         !.commit = "ok", !.refresh = "ok", !.rows = row], after)

\* create_record, behind Depends(require_admin_dep)
CreateRecordOutcome(sess, schemas, t, json, fault, dbv) ==
    IF ~RequireAdminDep(sess).ok
    THEN Outcome(Response(RequireAdminDep(sess).status, RequireAdminDep(sess).detail), dbv)
    ELSE IF ~ValidBody(schemas.create, json)
    THEN Outcome(Response(422, "validation error"), dbv)
    ELSE LET values == ModelDump(schemas.create, json)
             record == NewRow(t, values, dbv[t])
         IN  CommitOutcome(t, 201, {record}, ConstraintsHold(t, record, dbv[t]),
                           fault, dbv[t] \cup {record}, dbv)

\* update_record, behind Depends(require_admin_dep)
UpdateRecordOutcome(sess, schemas, t, record_id, json, fault, dbv) ==
    IF ~RequireAdminDep(sess).ok
    THEN Outcome(Response(RequireAdminDep(sess).status, RequireAdminDep(sess).detail), dbv)
    ELSE IF ~ValidBody(schemas.update, json)
    THEN Outcome(Response(422, "validation error"), dbv)
    ELSE LET f == BuildPkFilters(record_id, t, schemas.pk_columns)
             found == Matching(dbv[t], f.filters)
         IN  IF ~f.ok THEN Outcome(Response(f.status, f.detail), dbv)
             ELSE IF found = {}
             THEN Outcome([Response(404, "Record not found") EXCEPT !.queried = TRUE], dbv)
             ELSE LET record == CHOOSE r \in found : TRUE
                      update_data == ModelDump(schemas.update, json)
                      changed == [c \in ColumnNames(t) |->
                                    IF c \in DOMAIN update_data
                                    THEN update_data[c] ELSE record[c]]
                      others == dbv[t] \ {record}
                  IN  CommitOutcome(t, 200, {changed},
                                    ConstraintsHold(t, changed, others),
                                    fault, others \cup {changed}, dbv)

\* delete_record, behind Depends(require_admin_dep)
DeleteRecordOutcome(sess, schemas, t, record_id, fault, dbv) ==
    IF ~RequireAdminDep(sess).ok
    THEN Outcome(Response(RequireAdminDep(sess).status, RequireAdminDep(sess).detail), dbv)
    ELSE LET f == BuildPkFilters(record_id, t, schemas.pk_columns)
             found == Matching(dbv[t], f.filters)
         IN  IF ~f.ok THEN Outcome(Response(f.status, f.detail), dbv)
             ELSE IF found = {}
             THEN Outcome([Response(404, "Record not found") EXCEPT !.queried = TRUE], dbv)
             ELSE LET record == CHOOSE r \in found : TRUE
                      out == CommitOutcome(t, 204, {}, TRUE,
                                           IF fault = "refresh" THEN "none" ELSE fault,
                                           dbv[t] \ {record}, dbv)
                  IN  Outcome([out.resp EXCEPT !.refresh = "none"], out.db)

(***************************************************************************)
(* actions.py: execute_action                                              *)
(***************************************************************************)
\* action_map.get(action_name)
ActionNamed(actions, action_name) ==
    {actions[i] : i \in {j \in 1..Len(actions) : actions[j].name = action_name}}

\* action.fn(records, db): what the plugin function leaves in the database
ActionFn(action_name, t, records, dbv) ==
    IF action_name = "purge" THEN [dbv EXCEPT ![t] = @ \ records] ELSE dbv

\* "Role check": whether execute_action lets the user through
ActionRoleAllows(action, user) ==
    ~(action.role = "admin" /\ user.role # "admin")

\* the loop "Fetch records by PK" over pks[1..n]
RECURSIVE FetchRecords(_, _, _, _, _)
FetchRecords(pks, n, t, pk_columns, dbv) ==
    IF n = 0 THEN [ok |-> TRUE, detail |-> "", records |-> {}, queried |-> FALSE]
    ELSE LET before == FetchRecords(pks, n - 1, t, pk_columns, dbv)
             f == BuildPkFilters(pks[n], t, pk_columns)
         IN  IF ~before.ok THEN before
             ELSE IF ~f.ok
             THEN [ok |-> FALSE, detail |-> f.detail, records |-> {},
                   queried |-> before.queried]
             ELSE [ok |-> TRUE, detail |-> "",
                   records |-> before.records \cup Matching(dbv[t], f.filters),
                   queried |-> TRUE]

\* execute_action
ExecuteActionOutcome(sess, schemas, t, action_name, pks, fn_raises, dbv) ==
    IF ~RequireAuth(sess).ok
    THEN Outcome(Response(401, RequireAuth(sess).detail), dbv)
    ELSE IF ActionNamed(ActionsOf(t), action_name) = {}
    THEN Outcome(Response(404, "Action not found"), dbv)
    ELSE IF ~ActionRoleAllows(The(ActionNamed(ActionsOf(t), action_name)), The(sess))
    THEN Outcome(Response(403, "Admin access required"), dbv)
    ELSE IF Len(pks) = 0
    THEN Outcome(Response(400, "No records selected"), dbv)
    ELSE LET got == FetchRecords(pks, Len(pks), t, schemas.pk_columns, dbv)
         IN  IF ~got.ok
             THEN Outcome([Response(400, got.detail) EXCEPT !.queried = got.queried], dbv)
             ELSE IF got.records = {}
             THEN Outcome([Response(404, "No matching records found")
                              EXCEPT !.queried = TRUE], dbv)
             ELSE IF fn_raises
             THEN Outcome([Response(500, "Action failed") EXCEPT !.queried = TRUE,
                              !.ran = TRUE], dbv)
             ELSE Outcome([Response(200, "Action completed") EXCEPT !.queried = TRUE,
                              !.ran = TRUE, !.rows = got.records],
                          ActionFn(action_name, t, got.records, dbv))

(***************************************************************************)
(* auth.py: the authentication routes, as the pair of response and         *)
(* session after                                                           *)
(***************************************************************************)
SessionOutcome(r, sess) == [resp |-> r, session |-> sess]

User(email, name, role) == [email |-> email, name |-> name, role |-> role]

\* the username basic_login looks up
LoginName(username) == Strip(username)

\* the credentials check without the password comparison
CredentialsMatchAnyPassword(users, username, password) == username \in DOMAIN users

\* user_info and secrets.compare_digest(user_info["password"], password)
CredentialsMatch(users, username, password) ==
    /\ username \in DOMAIN users
    /\ users[username]["password"] = password

\* basic_login
BasicLoginOutcome(a, sess, username_raw, password) ==
    LET username == LoginName(username_raw)
    IN  IF ~Truthy(a.basic_users)
        THEN SessionOutcome(Response(400, "Basic auth is not enabled"), sess)
        ELSE IF ~CredentialsMatch(The(a.basic_users), username, password)
        THEN SessionOutcome(Response(401, "Invalid username or password"), sess)
        ELSE LET user_info == The(a.basic_users)[username]
                 user == User(username, username, DictGet(user_info, "role", "viewer"))
             IN  SessionOutcome([Response(200, "ok") EXCEPT !.user = Some(user)],
                                Some(user))

\* google_start: 400, or the redirect to the provider
GoogleStartOutcome(a, sess) ==
    IF ~HasGoogle(a)
    THEN SessionOutcome(Response(400, "Google OAuth is not enabled"), sess)
    ELSE SessionOutcome(Response(302, "accounts.google.com"), sess)

\* google_callback; token_ok: authorize_access_token returned; email: the
\* userinfo e-mail ("" when absent); name: the userinfo name, if any
GoogleCallbackOutcome(a, sess, token_ok, email, name) ==
    IF ~HasGoogle(a)
    THEN SessionOutcome(Response(307, "/login"), sess)
    ELSE IF ~token_ok
    THEN SessionOutcome(Response(307, "/login?error=oauth_failed"), sess)
    ELSE LET allowed == DictGet(The(a.google_oauth), "allowed_users", EmptyDict)
         IN  IF email \notin DOMAIN allowed
             THEN SessionOutcome(Response(307, "/login?error=not_allowed"), sess)
             ELSE SessionOutcome(
                      Response(307, "/"),
                      Some(User(email, IF name = None THEN email ELSE The(name),
                                allowed[email])))

\* auth_me
AuthMeOutcome(sess) ==
    IF GetSessionUser(sess) = None
    THEN SessionOutcome(Response(401, "Not authenticated"), sess)
    ELSE SessionOutcome([Response(200, "") EXCEPT !.user = sess], sess)

\* a logout that leaves the session as it is
AuthLogoutKeepsUser(sess) == SessionOutcome(Response(307, "/login"), sess)

\* auth_logout: request.session.pop("crudo_user", None)
AuthLogoutOutcome(sess) == SessionOutcome(Response(307, "/login"), None)

\* list_models without its require_auth call
ListModelsNoAuth(sess, registered, dbv) ==
    Outcome([Response(200, "") EXCEPT !.queried = TRUE,
                !.total = Cardinality(DOMAIN registered)], dbv)

\* list_models (_meta/models)
ListModelsOutcome(sess, registered, dbv) ==
    IF ~RequireAuth(sess).ok
    THEN Outcome(Response(401, RequireAuth(sess).detail), dbv)
    ELSE Outcome([Response(200, "") EXCEPT !.queried = TRUE,
                     !.total = Cardinality(DOMAIN registered)], dbv)

(***************************************************************************)
(* The inputs the specifications draw from.                                *)
(***************************************************************************)
BasicUsers == [alice |-> [password |-> "pw", role |-> "admin"],
               bob |-> [password |-> "pw2"]]

GoogleOAuth == [client_id |-> "cid", client_secret |-> "cs",
                allowed_users |-> [carol |-> "admin", dave |-> "viewer"]]

Arguments(secret_key, basic_users, google_oauth, auth_arg, include, exclude) ==
    [secret_key |-> secret_key, basic_users |-> basic_users,
     google_oauth |-> google_oauth, auth_arg |-> auth_arg,
     include_models |-> include, exclude_models |-> exclude]

\* the applications the request specification runs: basic users only,
\* Google only, both; shifts and alembic_version excluded
RunArguments ==
    { Arguments("s3cret", b, g, "CrudoAuth", None, Some(<<"alembic_version", "shifts">>)) :
        b \in {None, Some(BasicUsers)}, g \in {None, Some(GoogleOAuth)} }

InitialDb ==
    [t \in TableNames |->
        IF t = "notes" THEN {[id |-> IntV(1), body |-> StrV("m")]}
        ELSE IF t = "tags" THEN {[note_id |-> IntV(1), tag |-> StrV("a")]}
        ELSE {}]

\* the tables requests are sent to: two registered ones, an excluded one
RunTables == {"notes", "tags", "shifts"}
Usernames == {"alice", " alice ", "bob", "eve"}
Passwords == {"pw", "pw2"}
Emails == {"carol", "dave", "eve"}
Names == {None, Some("Carol")}
RunIds == {"1", "1--a", "x"}
Jsons == { NoJson, [body |-> StrV("m")], [body |-> IntV(5)], [id |-> IntV(2)],
           [tag |-> StrV("a")] }
Faults == {"none", "commit", "refresh"}
ActionNames == {"export", "purge", "audit", "ghost"}
PkLists == { <<>>, <<"2", "1">>, <<"1", "x">> }
PerPages == {1, 25}

(***************************************************************************)
(* The request actions.                                                    *)
(***************************************************************************)
\* the application is constructed and no request is being handled: requests
\* of the one session are handled one after the other
Running == built = "admin_ok" /\ req = NoRequest

\* the handler has returned: the response is sent and _get_db closes the
\* request's database session
Finish ==
    /\ built = "admin_ok"
    /\ req # NoRequest
    /\ req' = NoRequest
    /\ resp' = NoResponse
    /\ UNCHANGED <<cfgIn, built, auth, app, models, session, db, loggedOut>>

\* a request to the API that runs model discovery again, without the
\* include / exclude lists, before it answers
ApiRediscovers(r, route, out) ==
    /\ Running
    /\ req' = r
    /\ resp' = IF route = 200 THEN out.resp ELSE Response(route, "no route")
    /\ db' = IF route = 200 THEN out.db ELSE db
    /\ models' = DiscoverModels(None, None)
    /\ UNCHANGED <<cfgIn, built, auth, app, session, loggedOut>>

\* a request to the API: the handler's outcome when the path and method
\* have a route (route = 200), else the router's own 404 or 405
Api(r, route, out) ==
    /\ Running
    /\ req' = r
    /\ resp' = IF route = 200 THEN out.resp ELSE Response(route, "no route")
    /\ db' = IF route = 200 THEN out.db ELSE db
    /\ UNCHANGED <<cfgIn, built, auth, app, models, session, loggedOut>>

\* the route of a CRUD request on table t
CrudRoute(t) == IF t \in app.crud THEN 200 ELSE 404

\* the route of POST /{t}/_action/{name}: without an action router the path
\* only matches the CRUD router's /{record_id:path}, which has no POST
ActionRoute(t) ==
    IF t \in app.actions THEN 200 ELSE IF t \in app.crud THEN 405 ELSE 404

\* a request to an authentication route; a login that stores a user ends
\* the logged-out period
AuthRoute(r, out) ==
    /\ Running
    /\ req' = r
    /\ resp' = out.resp
    /\ session' = out.session
    /\ loggedOut' = IF r.op \in {"login", "google_callback"} /\ out.session # session
                    THEN FALSE ELSE loggedOut
    /\ UNCHANGED <<cfgIn, built, auth, app, models, db>>

SchemasOf(t) == IF t \in DOMAIN models THEN models[t] ELSE CreateSchemasForModel(ColumnsOf(t))

BasicLogin ==
    \E u \in Usernames, p \in Passwords :
        AuthRoute(Request("login", "", "", NoJson, u, p, <<>>, RoleOf(session)),
                  BasicLoginOutcome(The(auth), session, u, p))

GoogleStart ==
    AuthRoute(Request("google_start", "", "", NoJson, "", "", <<>>, RoleOf(session)),
              GoogleStartOutcome(The(auth), session))

GoogleCallback ==
    \E ok \in BOOLEAN, e \in Emails, n \in Names :
        AuthRoute(Request("google_callback", "", "", NoJson, e,
                          IF ok THEN "token" ELSE "", <<>>, RoleOf(session)),
                  GoogleCallbackOutcome(The(auth), session, ok, e, n))

AuthMe ==
    AuthRoute(Request("me", "", "", NoJson, "", "", <<>>, RoleOf(session)),
              AuthMeOutcome(session))

AuthLogout ==
    /\ Running
    /\ req' = Request("logout", "", "", NoJson, "", "", <<>>, RoleOf(session))
    /\ resp' = AuthLogoutOutcome(session).resp
    /\ session' = AuthLogoutOutcome(session).session
    /\ loggedOut' = TRUE
    /\ UNCHANGED <<cfgIn, built, auth, app, models, db>>

ListModels ==
    Api(Request("meta", "", "", NoJson, "", "", <<>>, RoleOf(session)),
        IF "meta_models" \in app.parts THEN 200 ELSE 404, ListModelsOutcome(session, models, db))

ListRecords ==
    \E t \in RunTables, per_page \in PerPages :
        Api(Request("list", t, "", NoJson, "", "", <<>>, RoleOf(session)),
            CrudRoute(t),
            ListRecordsOutcome(session, SchemasOf(t), t, 1, per_page, db))

GetRecord(tables, ids) ==
    \E t \in tables, id \in ids :
        Api(Request("get", t, id, NoJson, "", "", <<>>, RoleOf(session)),
            CrudRoute(t), GetRecordOutcome(session, SchemasOf(t), t, id, db))

\* the database hands out ids up to MaxAutoId only
IdsLeft(t) ==
    \A c \in ColumnNames(t) : DbGenerates(t, c) => NextId(db[t], c) <= MaxAutoId

CreateRecord ==
    \E t \in RunTables, j \in Jsons, fault \in Faults :
        /\ IdsLeft(t)
        /\ Api(Request("create", t, "", j, "", "", <<>>, RoleOf(session)),
               CrudRoute(t),
               CreateRecordOutcome(session, SchemasOf(t), t, j, fault, db))

UpdateRecord ==
    \E t \in RunTables, id \in RunIds, j \in Jsons, fault \in Faults :
        Api(Request("update", t, id, j, "", "", <<>>, RoleOf(session)),
            CrudRoute(t),
            UpdateRecordOutcome(session, SchemasOf(t), t, id, j, fault, db))

DeleteRecord ==
    \E t \in RunTables, id \in RunIds, fault \in Faults \ {"refresh"} :
        Api(Request("delete", t, id, NoJson, "", "", <<>>, RoleOf(session)),
            CrudRoute(t),
            DeleteRecordOutcome(session, SchemasOf(t), t, id, fault, db))

ExecuteAction ==
    \E t \in RunTables, a \in ActionNames, pks \in PkLists, fn_raises \in BOOLEAN :
        Api(Request("action", t, "", NoJson, a, "", pks, RoleOf(session)),
            ActionRoute(t),
            ExecuteActionOutcome(session, SchemasOf(t), t, a, pks, fn_raises, db))

(***************************************************************************)
(* The request specification: any sequence of logins, logouts and          *)
(* requests against a constructed application.                             *)
(***************************************************************************)
Init ==
    /\ cfgIn \in RunArguments
    /\ PostInit(cfgIn.secret_key, cfgIn.basic_users, cfgIn.google_oauth) = "ok"
    /\ built = "admin_ok"
    /\ auth = Some(AuthObject(cfgIn))
    /\ models = DiscoverModels(cfgIn.include_models, cfgIn.exclude_models)
    /\ app = SetupRoutes(DiscoverModels(cfgIn.include_models, cfgIn.exclude_models))
    /\ session = None
    /\ db = InitialDb
    /\ req = NoRequest
    /\ resp = NoResponse
    /\ loggedOut = FALSE

Next ==
    \/ BasicLogin
    \/ GoogleStart
    \/ GoogleCallback
    \/ AuthMe
    \/ AuthLogout
    \/ ListModels
    \/ ListRecords
    \/ GetRecord(RunTables, RunIds)
    \/ CreateRecord
    \/ UpdateRecord
    \/ DeleteRecord
    \/ ExecuteAction
    \/ Finish

Spec == Init /\ [][Next]_vars

(***************************************************************************)
(* The primary-key specification: get_record of an authenticated user on   *)
(* a fixed database, for every record id up to MaxIdLen characters.        *)
(***************************************************************************)
IdAlphabet == {"1", "-", "a"}
AllIds == StringsUpTo(IdAlphabet, MaxIdLen)

PkArguments == Arguments("s3cret", Some(BasicUsers), None, "CrudoAuth", None, None)
PkTables == {"notes", "tags", "shifts", "alembic_version"}

PkDb ==
    [t \in TableNames |->
        IF t = "notes" THEN {[id |-> IntV(1), body |-> StrV("m")],
                             [id |-> IntV(-1), body |-> NullV]}
        ELSE IF t = "tags" THEN {[note_id |-> IntV(1), tag |-> StrV("a")],
                                 [note_id |-> IntV(11), tag |-> StrV("1")],
                                 [note_id |-> IntV(1), tag |-> StrV("-")],
                                 [note_id |-> IntV(1), tag |-> StrV("--")]}
        ELSE IF t = "shifts" THEN {[span |-> StrV("1"), label |-> NullV],
                                   [span |-> StrV("a"), label |-> NullV]}
        ELSE IF t = "alembic_version" THEN {[version_num |-> StrV("1--a")],
                                            [version_num |-> StrV("a")]}
        ELSE {}]

InitPk ==
    /\ cfgIn = PkArguments
    /\ built = "admin_ok"
    /\ auth = Some(AuthObject(cfgIn))
    /\ models = DiscoverModels(cfgIn.include_models, cfgIn.exclude_models)
    /\ app = SetupRoutes(DiscoverModels(cfgIn.include_models, cfgIn.exclude_models))
    /\ session = Some(User("bob", "bob", "viewer"))
    /\ db = PkDb
    /\ req = NoRequest
    /\ resp = NoResponse
    /\ loggedOut = FALSE

NextPk ==
    \/ GetRecord(PkTables, AllIds)
    \/ Finish

SpecPk == InitPk /\ [][NextPk]_vars

(***************************************************************************)
(* The construction specification: CrudoAuth(...) and CrudoAdmin(...) on   *)
(* every combination of the argument values below.                         *)
(***************************************************************************)
SecretKeys == {"", "s3cret"}

BasicUsersArgs ==
    { None, Some(EmptyDict), Some(BasicUsers),
      Some([alice |-> [password |-> "", role |-> "admin"]]),
      Some([alice |-> [role |-> "admin"]]),
      Some([alice |-> [password |-> "pw", role |-> "root"]]),
      Some([alice |-> [password |-> "pw", role |-> "admin"],
            bob |-> [password |-> "pw2", role |-> "Admin"]]) }

GoogleOAuthArgs ==
    { None, Some(EmptyDict), Some(GoogleOAuth),
      Some([client_secret |-> "cs", allowed_users |-> [carol |-> "admin"]]),
      Some([client_id |-> "cid", client_secret |-> "",
            allowed_users |-> [carol |-> "admin"]]),
      Some([client_id |-> "cid", client_secret |-> "cs"]),
      Some([client_id |-> "cid", client_secret |-> "cs", allowed_users |-> EmptyDict]),
      Some([client_id |-> "cid", client_secret |-> "cs",
            allowed_users |-> [carol |-> "admin", dave |-> "owner"]]) }

AuthArgs == {"CrudoAuth", "dict", "None"}

IncludeArgs ==
    { None, Some(<<>>), Some(<<"notes">>), Some(<<"notes", "tags", "ghost">>),
      Some(<<"audit_log", "alembic_version", "legacy">>) }

ExcludeArgs ==
    { None, Some(<<>>), Some(<<"notes">>), Some(<<"alembic_version", "shifts">>) }

EmptyModels == [t \in {} |-> CreateSchemasForModel(ColumnsOf(t))]

InitSetup ==
    /\ cfgIn \in { Arguments(k, b, g, a, i, e) :
                      k \in SecretKeys, b \in BasicUsersArgs, g \in GoogleOAuthArgs,
                      a \in AuthArgs, i \in IncludeArgs, e \in ExcludeArgs }
    /\ built = "new"
    /\ auth = None
    /\ app = EmptyApp
    /\ models = EmptyModels
    /\ session = None
    /\ db = InitialDb
    /\ req = NoRequest
    /\ resp = NoResponse
    /\ loggedOut = FALSE

NextSetup ==
    \/ NewCrudoAuth
    \/ NewCrudoAdmin

SpecSetup == InitSetup /\ [][NextSetup]_vars

(***************************************************************************)
(* The schema specification: the try block of _discover_models for one     *)
(* mapped class, create_schemas_for_model and then get_column_metadata,    *)
(* on every class built from the columns below.  cfgIn holds the columns   *)
(* of the class, models the entry of self.models being built for it.       *)
(***************************************************************************)
\* <<class name of the column type, str(column.type)>>: SQLAlchemy's generic
\* and dialect types, and TypeDecorator subclasses rendered as their impl
SchemaTypes ==
    { <<"Integer", "INTEGER">>, <<"String", "VARCHAR">>, <<"Interval", "INTERVAL">>,
      <<"DateTime", "DATETIME">>, <<"Date", "DATE">>, <<"DOUBLE_PRECISION", "DOUBLE PRECISION">>,
      <<"TINYINT", "TINYINT">>, <<"LONGTEXT", "LONGTEXT">>, <<"YesNo", "BOOLEAN">>,
      <<"Money", "NUMERIC(10, 2)">>, <<"DATETIME2", "DATETIME2">>,
      <<"SMALLDATETIME", "SMALLDATETIME">>, <<"Stamp", "TIMESTAMP WITHOUT TIME ZONE">>,
      <<"DATERANGE", "DATERANGE">>, <<"Clock", "TIME WITH TIME ZONE">>,
      <<"JSONType", "JSON">>, <<"GUID", "UUID">>, <<"EpochDateTime", "BIGINT">>,
      <<"TSVECTOR", "TSVECTOR">>, <<"BIT", "BIT(8)">> }

\* Column(autoincrement=...): "auto", True, False, "ignore_fk"
Autoincrements == {"auto", "true", "false", "ignore_fk"}

\* a class with one column: every type and every combination of flags
WideColumn(name) ==
    { Col(name, ty[1], ty[2], pk, nl, d, sd, ai) :
        ty \in SchemaTypes, pk \in BOOLEAN, nl \in BOOLEAN, d \in BOOLEAN,
        sd \in BOOLEAN, ai \in Autoincrements }

\* the columns of the classes with several columns: a key column is not
\* nullable, another column is
KeyTypes == { <<"Integer", "INTEGER">>, <<"String", "VARCHAR">>, <<"Interval", "INTERVAL">> }

SmallColumn(name) ==
    { Col(name, ty[1], ty[2], pk, ~pk, d, FALSE, ai) :
        ty \in KeyTypes, pk \in BOOLEAN, d \in BOOLEAN, ai \in {"auto", "true"} }

ColumnNameAt == <<"a", "b", "c", "d">>

RECURSIVE ModelsOfLen(_)
ModelsOfLen(n) ==
    IF n = 0 THEN {<<>>}
    ELSE {Append(m, c) : m \in ModelsOfLen(n - 1), c \in SmallColumn(ColumnNameAt[n])}

SchemaModels ==
    {<<c>> : c \in WideColumn(ColumnNameAt[1])}
        \cup UNION {ModelsOfLen(n) : n \in 2..MaxColumns}

\* schemas = create_schemas_for_model(cls)
CreateSchemas ==
    /\ built = "model"
    /\ built' = "schemas"
    /\ models' = [schemas |-> CreateSchemasForModel(cfgIn)]
    /\ UNCHANGED <<cfgIn, auth, app, session, db, req, resp, loggedOut>>

\* columns = get_column_metadata(cls), and the entry is stored
ColumnMetadata ==
    /\ built = "schemas"
    /\ built' = "registered"
    /\ models' = [schemas |-> models.schemas, columns |-> GetColumnMetadata(cfgIn)]
    /\ UNCHANGED <<cfgIn, auth, app, session, db, req, resp, loggedOut>>

InitSchema ==
    /\ cfgIn \in SchemaModels
    /\ built = "model"
    /\ auth = None
    /\ app = EmptyApp
    /\ models = EmptyModels
    /\ session = None
    /\ db = InitialDb
    /\ req = NoRequest
    /\ resp = NoResponse
    /\ loggedOut = FALSE

NextSchema ==
    \/ CreateSchemas
    \/ ColumnMetadata

SpecSchema == InitSchema /\ [][NextSchema]_vars

(***************************************************************************)
(* Properties.                                                             *)
(***************************************************************************)
WriteOps == {"create", "update", "delete"}
ApiOps == {"meta", "list", "get", "create", "update", "delete", "action"}

\* the request r reaches a handler of the API
Routed(r) ==
    \/ r.op = "meta"
    \/ r.op \in {"list", "get"} \cup WriteOps /\ r.table \in app.crud
    \/ r.op = "action" /\ r.table \in app.actions

\* a request is taken up in this step
Begins == req = NoRequest /\ req' # NoRequest

\* C1: a create, update or delete request on a registered model changes
\* the database only if the session user at that time has role admin; from
\* a session user with another role it is answered 403 "Admin access
\* required", whatever its body, and leaves the database unchanged.
C1_AdminGatedWrites ==
    [][ (Begins /\ req'.op \in WriteOps /\ req'.table \in DOMAIN models) =>
            /\ db' # db => RoleOf(session) = "admin"
            /\ RoleOf(session) \notin {"", "admin"} =>
                  /\ resp'.status = 403
                  /\ resp'.detail = "Admin access required"
                  /\ db' = db ]_vars

\* a viewer's create with a body the Create contract rejects is answered 403
C1_ViewerWriteRefused ==
    /\ req.op = "create"
    /\ req.table = "notes"
    /\ req.role = "viewer"
    /\ ~ValidBody(models["notes"].create, req.json)
    /\ resp.status = 403

KeyColumns(r) == models[r.table].pk_columns
KeyTexts(r) == IF Len(KeyColumns(r)) > 1 THEN Split(r.id, "--") ELSE <<r.id>>
PkRequest(r) == r.op = "get" /\ r.table \in DOMAIN models /\ resp.status # 401

\* C3: with more than one key column the record id is split on "--" and
\* the values are matched to the key columns by position; another number
\* of values than key columns is answered 400 without a query.  With one
\* key column the whole record id is the value.
C3_CompositeKeySplit ==
    PkRequest(req) =>
        LET pk == KeyColumns(req)
            texts == KeyTexts(req)
            conv == [j \in 1..Len(pk) |->
                        ConvertPkValue(texts[j], ColumnNamed(req.table, pk[j]))]
            hit == {r \in db[req.table] : \A j \in 1..Len(pk) : r[pk[j]] = conv[j].value}
        IN  IF Len(texts) # Len(pk)
            THEN resp.status = 400 /\ ~resp.queried
            ELSE (\A j \in 1..Len(pk) : conv[j].ok) =>
                    /\ resp.queried
                    /\ resp.status = IF hit = {} THEN 404 ELSE 200
                    /\ resp.rows = hit

\* a composite-key get whose id splits into three values is answered 400
C3_WrongNumberOfValues ==
    /\ req.op = "get"
    /\ req.table = "tags"
    /\ Len(Split(req.id, "--")) = 3
    /\ resp.status = 400
    /\ ~resp.queried

\* the column has an integer type, by the type table of schema_factory
IsIntegerType(col) == GetSaTypeInfo(col)[1] = "integer"

\* C4: a primary-key value from the URL is converted to an integer if and
\* only if its column has an integer type, with 400 "Invalid integer PK"
\* when the text is no integer; for every other column type it is used as
\* the unchanged string.
C4_IntegerIffIntegerType ==
    (PkRequest(req) /\ Len(KeyTexts(req)) = Len(KeyColumns(req))) =>
        LET pk == KeyColumns(req)
            texts == KeyTexts(req)
            isInt == [j \in 1..Len(pk) |-> IsIntegerType(ColumnNamed(req.table, pk[j]))]
            value == [j \in 1..Len(pk) |->
                        IF isInt[j] THEN IntV(IntOf(texts[j])) ELSE StrV(texts[j])]
            hit == {r \in db[req.table] : \A j \in 1..Len(pk) : r[pk[j]] = value[j]}
        IN  IF \E j \in 1..Len(pk) : isInt[j] /\ ~IntParses(texts[j])
            THEN resp.status = 400 /\ resp.detail = "Invalid integer PK"
            ELSE resp.status = IF hit = {} THEN 404 ELSE 200

\* C5: when the commit of a create, update or delete fails the request is
\* rolled back and answered 400, the database holds what it held before
\* the request, and it still does when the request has finished.
C5_RollbackOnCommitFailure ==
    [][ /\ (Begins /\ req'.op \in WriteOps /\ resp'.commit = "failed") =>
              (resp'.status = 400 /\ resp'.rolled_back /\ db' = db)
        /\ (req.op \in WriteOps /\ resp.commit = "failed") => db' = db ]_vars

\* an update whose commit failed
C5_FailedUpdate ==
    /\ req.op = "update"
    /\ req.table = "notes"
    /\ resp.commit = "failed"
    /\ resp.status = 400

\* the credentials of a login request r are good: basic login with the
\* user named by `name` and that user's password, or a Google callback
\* with a token and an allowed e-mail
GoodBasicLogin(r, name) ==
    /\ r.op = "login"
    /\ Truthy(The(auth).basic_users)
    /\ name \in DOMAIN The(The(auth).basic_users)
    /\ The(The(auth).basic_users)[name]["password"] = r.secret

GoodGoogleLogin(r) ==
    /\ r.op = "google_callback"
    /\ Truthy(The(auth).google_oauth)
    /\ r.secret = "token"
    /\ r.name \in DOMAIN The(The(auth).google_oauth)["allowed_users"]

ConfiguredBasicRole(name) ==
    LET info == The(The(auth).basic_users)[name]
    IN  IF "role" \in DOMAIN info THEN info["role"] ELSE "viewer"

\* the session after a request, when the basic user is looked up by `name`
LoginRule(r, name) ==
    /\ GoodBasicLogin(r, name) =>
          session' = Some(User(name, name, ConfiguredBasicRole(name)))
    /\ GoodGoogleLogin(r) =>
          /\ session' # None
          /\ The(session').email = r.name
          /\ The(session').role = The(The(auth).google_oauth)["allowed_users"][r.name]
    /\ (~GoodBasicLogin(r, name) /\ ~GoodGoogleLogin(r) /\ r.op # "logout") =>
          session' = session

\* C6 as stated: the session obtains a user only through a basic login
\* whose username is a key of basic_users with that user's password, or a
\* Google callback with an allowed e-mail; the stored role is the
\* configured one; every other attempt leaves the session as it was.
C6_LoginOnlyWithCredentials ==
    [][ Begins => LoginRule(req', req'.name) ]_vars

\* C6 amended: the same, the basic user being the one named by the
\* submitted username with surrounding whitespace stripped.
C6_LoginWithStrippedUsername ==
    [][ Begins => LoginRule(req', Strip(req'.name)) ]_vars

\* alice is logged in by a username that is padded with blanks
C6_PaddedUsernameLogsIn ==
    /\ req.op = "login"
    /\ req.name = " alice "
    /\ session = Some(User("alice", "alice", "admin"))
    /\ resp.status = 200

RequestedAction(r) == ActionNamed(ActionsOf(r.table), r.name)

\* C8: an action runs only for a session user who holds its required role:
\* an action of role admin only for an admin (others get 403), and for a
\* user who is no admin only an action of role viewer.
C8_ActionNeedsRole ==
    (req.op = "action" /\ Routed(req) /\ RequestedAction(req) # {} /\ req.role # "") =>
        LET action == The(RequestedAction(req))
        IN  /\ (action.role = "admin" /\ req.role # "admin") => resp.status = 403
            /\ resp.ran =>
                  /\ action.role = "admin" => req.role = "admin"
                  /\ req.role # "admin" => action.role = "viewer"

\* what C9 asks of the arguments of CrudoAuth; the google_oauth dict is
\* looked at when `google_checked`
ValidAuthArguments(in, google_checked) ==
    /\ in.secret_key # ""
    /\ Truthy(in.basic_users) \/ Truthy(in.google_oauth)
    /\ in.basic_users # None =>
          \A u \in DOMAIN The(in.basic_users) :
              LET info == The(in.basic_users)[u]
              IN  /\ "password" \in DOMAIN info
                  /\ info["password"] # ""
                  /\ "role" \in DOMAIN info => info["role"] \in {"admin", "viewer"}
    /\ google_checked =>
          LET g == The(in.google_oauth)
          IN  /\ {"client_id", "client_secret", "allowed_users"} \subseteq DOMAIN g
              /\ g["client_id"] # ""
              /\ g["client_secret"] # ""
              /\ DOMAIN g["allowed_users"] # {}
              /\ \A e \in DOMAIN g["allowed_users"] :
                    g["allowed_users"][e] \in {"admin", "viewer"}

ConstructionRule(valid) ==
    /\ (cfgIn.auth_arg = "CrudoAuth" /\ built # "new") =>
          /\ built \in {"auth_ok", "admin_ok"} <=> valid
          /\ built = "ValueError" <=> ~valid
    /\ auth # None => valid
    /\ (cfgIn.auth_arg # "CrudoAuth" /\ built # "new") =>
          /\ built = "TypeError"
          /\ app = EmptyApp
          /\ models = EmptyModels

\* C9 as stated: a CrudoAuth is constructed only if secret_key is
\* non-empty, one of basic_users and google_oauth is non-empty, every
\* basic user has a non-empty password and a role admin or viewer, and
\* google_oauth, when given, has non-empty client_id, client_secret and
\* allowed_users with roles admin or viewer; any violation raises
\* ValueError.  A CrudoAdmin given an auth that is no CrudoAuth raises
\* TypeError before anything is added to the application.
C9_ValidatedWhenGiven ==
    ConstructionRule(ValidAuthArguments(cfgIn, cfgIn.google_oauth # None))

\* C9 amended: google_oauth is validated when it is given and non-empty.
C9_ValidatedWhenNonEmpty ==
    ConstructionRule(ValidAuthArguments(cfgIn, Truthy(cfgIn.google_oauth)))

\* a CrudoAuth constructed with basic users and google_oauth = {}
C9_EmptyGoogleAccepted ==
    /\ built = "auth_ok"
    /\ cfgIn.google_oauth = Some(EmptyDict)
    /\ auth # None

\* C10: with include_models set only models named in it are registered;
\* no model named in exclude_models is registered, also when included; no
\* model without a primary-key column is registered; only registered
\* models get CRUD routes.
C10_IncludeExclude ==
    built = "admin_ok" =>
        /\ cfgIn.include_models # None =>
              DOMAIN models \subseteq ToSet(The(cfgIn.include_models))
        /\ cfgIn.exclude_models # None =>
              DOMAIN models \cap ToSet(The(cfgIn.exclude_models)) = {}
        /\ \A t \in DOMAIN models :
              \E i \in 1..Len(ColumnsOf(t)) : ColumnsOf(t)[i].primary_key
        /\ app.crud = DOMAIN models
        /\ app.actions \subseteq DOMAIN models

(***************************************************************************)
(* Frame of the requests.                                                  *)
(***************************************************************************)
\* what CrudoAdmin construction fixed: the arguments, the CrudoAuth object,
\* the registered models with their contracts and pk_columns, the routes
Registry == <<cfgIn, built, auth, models, app>>

\* C11: the registered models, their Read / Create / Update contracts and
\* their pk_columns are fixed when construction finishes: no request (login,
\* logout, list, get, create, update, delete, action) changes them; a
\* request writes only the session and the database.
C11_RegistryFixed ==
    [][ built = "admin_ok" =>
            /\ Registry' = Registry
            /\ models = DiscoverModels(cfgIn.include_models, cfgIn.exclude_models)
            /\ \A t \in DOMAIN models : models'[t] = CreateSchemasForModel(ColumnsOf(t)) ]_vars

\* an admin has created a record and then run an action that changed the
\* database, and the registry is the one construction produced
C11_AfterWrites ==
    /\ req.op = "action" /\ resp.status = 200
    /\ db # InitialDb
    /\ \E r \in db["notes"] : r["id"] = IntV(2)
    /\ models = DiscoverModels(cfgIn.include_models, cfgIn.exclude_models)

(***************************************************************************)
(* Generated contracts.                                                    *)
(***************************************************************************)
\* the class whose schemas have been generated, and the schemas
SchemasBuilt == built \in {"schemas", "registered"}

\* an auto-generated primary-key column, as C12 words it
AutoGenerated(col) ==
    /\ col.primary_key
    /\ \/ col.server_default
       \/ col.default
       \/ col.autoincrement = "true"
       \/ col.autoincrement = "auto" /\ IsIntegerType(col)

\* C12: the Read and Update contracts hold every column as an optional
\* field; the Create contract omits exactly the auto-generated primary-key
\* columns (a key column with a server default, a default, autoincrement
\* True, or autoincrement "auto" and an integer type), requires a remaining
\* column if and only if it is not nullable and has neither default nor
\* server default, and a column outside the key is never auto-generated.
C12_ContractFields ==
    SchemasBuilt =>
        LET s == models.schemas
            names == NamesOf(cfgIn)
        IN  /\ DOMAIN s.read = names
            /\ DOMAIN s.update = names
            /\ \A c \in names : ~s.read[c].required /\ ~s.update[c].required
            /\ DOMAIN s.create = {c \in names : ~AutoGenerated(Named(cfgIn, c))}
            /\ \A c \in DOMAIN s.create :
                  LET col == Named(cfgIn, c)
                  IN  s.create[c].required <=>
                        (~col.nullable /\ ~col.default /\ ~col.server_default)
            /\ \A c \in names : ~Named(cfgIn, c).primary_key => c \in DOMAIN s.create

(***************************************************************************)
(* Type mapping.                                                           *)
(***************************************************************************)
\* the substring rules on the rendered type, in the order C13 gives them
SubstringRules ==
    << <<{"INT"}, "integer", "int">>,
       <<{"CHAR", "TEXT", "CLOB"}, "string", "str">>,
       <<{"BOOL"}, "boolean", "bool">>,
       <<{"FLOAT", "DOUBLE", "NUMERIC", "DECIMAL"}, "number", "float">>,
       <<{"TIMESTAMP", "DATETIME"}, "datetime", "datetime">>,
       <<{"DATE"}, "date", "date">>,
       <<{"TIME"}, "time", "time">>,
       <<{"JSON"}, "json", "Any">>,
       <<{"UUID"}, "string", "str">> >>

\* the rules some substring of which occurs in the text
RulesMatching(text) ==
    {i \in 1..Len(SubstringRules) : \E sub \in SubstringRules[i][1] : Contains(sub, text)}

\* the pair C13 gives a column
MappedPair(col) ==
    LET key == Upper(col.type)
        hits == RulesMatching(Upper(col.rendered))
        first == CHOOSE i \in hits : \A j \in hits : i <= j
    IN  IF InTypeMap(key) THEN TypeMapEntry(key)
        ELSE IF hits = {} THEN <<"string", "str">>
        ELSE <<SubstringRules[first][2], SubstringRules[first][3]>>

\* C13: every column gets one (json type, python type) pair: the entry of
\* the lookup table when the upper-cased type class name is a key of it,
\* else the pair of the first substring rule matching the rendered type in
\* the order INT, CHAR/TEXT/CLOB, BOOL, FLOAT/DOUBLE/NUMERIC/DECIMAL,
\* TIMESTAMP/DATETIME, DATE, TIME, JSON, UUID, else ("string", str); a
\* rendered type naming DATETIME or TIMESTAMP never maps to date or time.
C13_TypeMapping ==
    /\ SchemasBuilt =>
          \A c \in NamesOf(cfgIn) :
              /\ models.schemas.read[c].py = MappedPair(Named(cfgIn, c))[2]
              /\ models.schemas.update[c].py = MappedPair(Named(cfgIn, c))[2]
    /\ built = "registered" =>
          /\ Len(models.columns) = Len(cfgIn)
          /\ \A i \in 1..Len(cfgIn) :
                LET col == cfgIn[i]
                    text == Upper(col.rendered)
                IN  /\ models.columns[i].name = col.name
                    /\ models.columns[i].type = MappedPair(col)[1]
                    /\ (/\ ~InTypeMap(Upper(col.type))
                        /\ Contains("DATETIME", text) \/ Contains("TIMESTAMP", text))
                          => /\ models.columns[i].type \notin {"date", "time"}
                             /\ RulesMatching(text) \cap 1..4 = {}
                                    => models.columns[i].type = "datetime"

\* a column of a type outside the lookup table whose rendering names
\* DATETIME has been mapped to datetime
C13_Datetime2Mapped ==
    /\ built = "registered"
    /\ cfgIn[1].type = "DATETIME2"
    /\ ~InTypeMap(Upper(cfgIn[1].type))
    /\ models.columns[1].type = "datetime"
    /\ models.schemas.read["a"].py = "datetime"

(***************************************************************************)
(* Composite keys in the Create contract.                                  *)
(***************************************************************************)
\* C15: for a class whose primary key has more than one column, every key
\* column with neither default nor server default is a field of the Create
\* contract, so that a create request can give the full key.
C15_CompositeKeyInCreate ==
    (SchemasBuilt /\ Len(models.schemas.pk_columns) > 1) =>
        \A c \in NamesOf(cfgIn) :
            LET col == Named(cfgIn, c)
            IN  (col.primary_key /\ ~col.default /\ ~col.server_default)
                    => c \in DOMAIN models.schemas.create

(***************************************************************************)
(* Record ids.                                                             *)
(***************************************************************************)
\* the decimal text of an integer
RECURSIVE NatText(_)
NatText(n) ==
    IF n < 10 THEN CharAt(Digits, n + 1)
    ELSE NatText(n \div 10) \o CharAt(Digits, (n % 10) + 1)

IntText(n) == IF n < 0 THEN "-" \o NatText(0 - n) ELSE NatText(n)

ValueText(v) == IF v.k = "int" THEN IntText(v.i) ELSE v.s

RECURSIVE JoinTexts(_, _)
JoinTexts(texts, sep) ==
    IF Len(texts) = 0 THEN ""
    ELSE IF Len(texts) = 1 THEN texts[1]
    ELSE texts[1] \o sep \o JoinTexts(Tail(texts), sep)

\* the id of a stored record: its key values in pk_columns order, joined
\* with "--" when the key has more than one column
RecordId(t, row) ==
    JoinTexts([j \in 1..Len(models[t].pk_columns) |->
                  ValueText(row[models[t].pk_columns[j]])], "--")

\* C14: for every stored record of a registered model the id formed from
\* its key values, joined with "--", addresses exactly that record: a get
\* with that id returns that record and no other.
C14_IdAddressesRecord ==
    (req.op = "get" /\ req.table \in DOMAIN models) =>
        \A row \in db[req.table] :
            RecordId(req.table, row) = req.id =>
                resp.status = 200 /\ resp.rows = {row}

====
